---- MODULE Spec2Model ----
(***************************************************************************)
(* A model of bluesky_ui/widgets.py: the table-editor coupling rule, the   *)
(* uniqueness and selection-exclusion editor factories, the motor range    *)
(* picker and the control panel's wiring of the go button and of document  *)
(* delivery.                                                               *)
(*                                                                         *)
(* Python values are pairs <<type, payload>> with an integer payload, so   *)
(* that values of different Python types can be compared: None, False and  *)
(* 0 are three different values, of which all three are falsy.             *)
(***************************************************************************)
EXTENDS Integers, Sequences, FiniteSets, TLC

VARIABLES
    \* ---- the coupling rule (bs_motor_update_coupled_parameters) ----
    heap,        \* object id -> dict: the dicts alive in the interpreter
    row,         \* the row argument of the last call
    ret,         \* what the last call returned: an object id, or the exception
    argsBefore,  \* the contents of the two argument dicts when the call began
    previous,    \* the outcome of the call before a repeated call
    \* ---- the uniqueness editor (table_unique_mtext_factory) ----
    tableModel,   \* table.tableView.model(): rows of displayed strings
    selection,    \* the selected index <<row, column>>, <<>> with no editor
    invalid_list, \* the open editor's UniqueValidator.invalid_list
    inputStr,     \* the string last handed to validate
    verdict,      \* what validate returned
    \* ---- the selection-exclusion combo (table_mcombobox_factory) ----
    option_list,  \* the factory's option_list
    rows,         \* table.get_parameters()[table._name]: the key column
    editorRow,    \* the row whose combo editor is open, 0 when none is
    items,        \* the open editor's items: name -> item
    edits,        \* how many cells the combo editor has changed
    \* ---- MoverRanger ----
    mover,        \* self.mover
    lower,        \* self.lower, an MFSpin: minimum, maximum, value
    upper,        \* self.upper, an MFSpin
    steps,        \* self.steps, an MISpin
    lastSet,      \* the argument of the most recent set_mover
    \* ---- ControlGui ----
    currentIndex, \* tabs.tab_widget: the index of the active tab
    scanState,    \* scan widget -> the setting of its input widgets
    queue,        \* the plans put on self.queue, oldest first
    clicked,      \* at each click of go_button: the active tab and its setting
    emitted,      \* the (name, doc) pairs teleport.name_doc has emitted
    labelText,    \* self.label.text()
    labelDocs,    \* the calls of label.doc_consumer
    becDocs,      \* the calls of self.bec, made by the dispatcher self.cbr
    liveDocs,     \* the calls of live_widget.doc_consumer
    \* ---- MotorSelector ----
    motors,       \* len(self.motors): the MoverRanger widgets, numbered from 1
    active_motor, \* the index in self.motors of self.active_motor, 0 when the
                  \* attribute has never been set
    visible,      \* MoverRanger widget -> whether it is visible
    lastN,        \* the argument of the most recent set_active_motor
    selBefore,    \* the active motor and the visibilities before that call
    selCalls,     \* how many calls followed the construction
    \* ---- the position editor (bs_motor_position_mfspin_factory) ----
    posRows,      \* table.get_row_parameters(r)[table._name], for every row r
    posSelected,  \* the row of the selected index, 0 with no editor open
    posEditor     \* the minimum and maximum the open MFSpin was built with

coupledVars == <<heap, row, ret, argsBefore, previous>>

uniqueVars == <<tableModel, selection, invalid_list, inputStr, verdict>>

comboVars == <<option_list, rows, editorRow, items, edits>>

rangerVars == <<mover, lower, upper, steps, lastSet>>

guiVars == <<currentIndex, scanState, queue, clicked, emitted, labelText,
             labelDocs, becDocs, liveDocs>>

selectorVars == <<motors, active_motor, visible, lastN, selBefore, selCalls>>

positionVars == <<posRows, posSelected, posEditor>>

vars == <<coupledVars, uniqueVars, comboVars, rangerVars, guiVars,
          selectorVars, positionVars>>

(***************************************************************************)
(* Python values                                                           *)
(***************************************************************************)
PyNone == <<"NoneType", 0>>
PyFalse == <<"bool", 0>>
PyTrue == <<"bool", 1>>
PyInt(n) == <<"int", n>>
\* a string, named by a number; string 0 is the empty string
PyStr(s) == <<"str", s>>
\* a device object (hw.motor, hw.motor1, ...), named by a number
Device(d) == <<"device", d>>

\* bool(v): None, False, 0 and '' are falsy, an object without __bool__ or
\* __len__ is truthy
Truthy(v) ==
    CASE v[1] = "NoneType" -> FALSE
      [] v[1] \in {"bool", "int", "str"} -> v[2] # 0
      [] OTHER -> TRUE

\* the operands for which Python's < and > against a number are defined
IsNumber(v) == v[1] \in {"bool", "int"}

(***************************************************************************)
(* Devices: name, optional limits                                          *)
(***************************************************************************)
\* device 1 has limits (1, 2); device 2 has the EPICS 'not set' limits (0, 0);
\* device 3 has no limits attribute; device 4 has limits (2, 3)
DeviceLimits ==
    (1 :> <<1, 2>>) @@ (2 :> <<0, 0>>) @@ (4 :> <<2, 3>>)

NoLimits == <<0, 0>>

\* getattr(motor, 'limits', (0, 0))
GetLimits(motor) ==
    IF motor[1] = "device" /\ motor[2] \in DOMAIN DeviceLimits
    THEN DeviceLimits[motor[2]]
    ELSE NoLimits

(***************************************************************************)
(* bs_motor_update_coupled_parameters                                      *)
(***************************************************************************)
PositionColumns == <<"start", "stop", "value">>

\* {**current_parameters, **requested_parameters}
MergeDicts(cur, req) ==
    [k \in (DOMAIN cur) \cup (DOMAIN req) |->
        IF k \in DOMAIN req THEN req[k] ELSE cur[k]]

\* a slip: the merge is done in place, in the caller's current_parameters
NewParametersInPlace(h, requested_parameters, current_parameters) ==
    [heap |-> [h EXCEPT ![current_parameters] =
                   MergeDicts(h[current_parameters], h[requested_parameters])],
     ref |-> current_parameters]

\* new_parameters = {**current_parameters, **requested_parameters}: a new
\* dict object
NewParameters(h, requested_parameters, current_parameters) ==
    [heap |-> [o \in (DOMAIN h) \cup {"new"} |->
                  IF o = "new"
                  THEN MergeDicts(h[current_parameters], h[requested_parameters])
                  ELSE h[o]],
     ref |-> "new"]

\* a slip: the upper limit is excluded
OutsideLimitsStrict(v, limits) == v[2] < limits[1] \/ v[2] >= limits[2]

\* current_parameters[column_name] < limits[0] or ... > limits[1]
OutsideLimits(v, limits) == v[2] < limits[1] \/ v[2] > limits[2]

\* the loop over ['start', 'stop', 'value'], from column i on: the heap after
\* it, or the TypeError of comparing a value that is no number
RECURSIVE ResetLoop(_, _, _, _, _)
ResetLoop(h, new_parameters, current_parameters, limits, i) ==
    IF i > Len(PositionColumns) THEN [heap |-> h, raised |-> FALSE]
    ELSE LET column_name == PositionColumns[i]
         IN  IF column_name \notin DOMAIN h[current_parameters]
             THEN ResetLoop(h, new_parameters, current_parameters, limits, i + 1)
             ELSE LET v == h[current_parameters][column_name]
                  IN  IF ~IsNumber(v) THEN [heap |-> h, raised |-> TRUE]
                      ELSE IF OutsideLimits(v, limits)
                      THEN ResetLoop(
                               [h EXCEPT ![new_parameters][column_name] = PyNone],
                               new_parameters, current_parameters, limits, i + 1)
                      ELSE ResetLoop(h, new_parameters, current_parameters,
                                     limits, i + 1)

\* a slip: the snake column of every row gets the treatment of row 0
SnakeRuleEveryRow(d, r) ==
    IF "snake" \in DOMAIN d THEN [d EXCEPT !["snake"] = PyNone] ELSE d

\* a slip: row 0 is treated as the other rows are
SnakeRuleNoRowZero(d, r) ==
    IF "snake" \in DOMAIN d /\ ~Truthy(d["snake"])
    THEN [d EXCEPT !["snake"] = PyFalse]
    ELSE d

\* if 'snake' in new_parameters.keys(): ...
SnakeRule(d, r) ==
    IF "snake" \in DOMAIN d
    THEN IF r = 0 THEN [d EXCEPT !["snake"] = PyNone]
         ELSE IF ~Truthy(d["snake"]) THEN [d EXCEPT !["snake"] = PyFalse]
         ELSE d
    ELSE d

\* The call: the heap after it and what it returns, the id of the merged dict
\* or "TypeError"
bs_motor_update_coupled_parameters(h, requested_parameters, current_parameters, r) ==
    LET np == NewParameters(h, requested_parameters, current_parameters)
        req == h[requested_parameters]
        limits == IF "motor" \in DOMAIN req THEN GetLimits(req["motor"])
                  ELSE NoLimits
        looped == IF "motor" \in DOMAIN req /\ limits # NoLimits
                  THEN ResetLoop(np.heap, np.ref, current_parameters, limits, 1)
                  ELSE [heap |-> np.heap, raised |-> FALSE]
    IN  IF looped.raised
        THEN [heap |-> looped.heap, ret |-> "TypeError"]
        ELSE [heap |-> [looped.heap EXCEPT
                           ![np.ref] = SnakeRule(looped.heap[np.ref], r)],
              ret |-> np.ref]

(***************************************************************************)
(* The coupling rule as the table calls it                                 *)
(***************************************************************************)
Absent == <<"absent", 0>>

\* the dict with the keys of m that are present
Dict(m) == [k \in {c \in DOMAIN m : m[c] # Absent} |-> m[k]]

EmptyDict == [k \in {} |-> PyNone]

\* positions below, at and above the limits (1, 2) of device 1
Positions == {PyInt(n) : n \in 0..3}

\* the rows a table holds: any subset of the columns, a position column
\* unset (None) or a number
CurrentRows ==
    {Dict(m) : m \in [motor : {Absent, Device(2)},
                      start : {Absent, PyNone} \cup Positions,
                      stop : {Absent, PyNone} \cup Positions,
                      value : {Absent, PyNone} \cup Positions,
                      snake : {Absent, PyNone, PyTrue}]}

\* the updates an edit requests: a new motor, a new snake flag (falsy values
\* of every kind, and truthy ones), a new start position
RequestedUpdates ==
    {Dict(m) : m \in [motor : {Absent, PyNone, Device(1), Device(2), Device(3)},
                      start : {Absent, PyInt(0), PyInt(2)},
                      snake : {Absent, PyNone, PyFalse, PyTrue, PyInt(0),
                               PyInt(1), PyStr(0)}]}

MaxRow == 1

\* what a call produced: the merged row, or the exception
Outcome(h, r) ==
    IF r = "TypeError" THEN [raised |-> TRUE, merged |-> EmptyDict]
    ELSE [raised |-> FALSE, merged |-> h[r]]

CoupledStart ==
    /\ \E cur \in CurrentRows : heap = ("current" :> cur)
    /\ row = 0
    /\ ret = "NotCalled"
    /\ argsBefore = [requested |-> EmptyDict, current |-> EmptyDict]
    /\ previous = <<>>

\* The table calls the rule with a requested update of row r
UpdateCoupled(req, r) ==
    LET h0 == ("current" :> heap["current"]) @@ ("requested" :> req)
        res == bs_motor_update_coupled_parameters(h0, "requested", "current", r)
    IN  /\ heap' = res.heap
        /\ ret' = res.ret
        /\ row' = r
        /\ argsBefore' = [requested |-> req, current |-> heap["current"]]
        /\ previous' = <<>>

\* The same call once more, with the same argument objects
CallAgain ==
    /\ ret # "NotCalled"
    /\ previous = <<>>
    /\ LET h0 == [o \in {"current", "requested"} |-> heap[o]]
           res == bs_motor_update_coupled_parameters(h0, "requested",
                                                     "current", row)
       IN  /\ heap' = res.heap
           /\ ret' = res.ret
           /\ previous' = <<Outcome(heap, ret)>>
    /\ UNCHANGED <<row, argsBefore>>

\* the component at rest, in the specifications of the other components
CoupledIdle ==
    /\ heap = ("current" :> EmptyDict)
    /\ row = 0
    /\ ret = "NotCalled"
    /\ argsBefore = [requested |-> EmptyDict, current |-> EmptyDict]
    /\ previous = <<>>

(***************************************************************************)
(* Properties of the coupling rule                                         *)
(***************************************************************************)
\* the last call returned a merged row
Returned == ret \notin {"NotCalled", "TypeError"}

merged == heap[ret]

requested == argsBefore.requested

current == argsBefore.current

\* the call changed 'motor' to a device with limits other than (0, 0)
MotorWithLimits ==
    /\ "motor" \in DOMAIN requested
    /\ GetLimits(requested["motor"]) # NoLimits

NewLimits == GetLimits(requested["motor"])

InsideLimits(v, limits) == limits[1] <= v[2] /\ v[2] <= limits[2]

PresentPositions ==
    {c \in {"start", "stop", "value"} :
        c \in DOMAIN current /\ IsNumber(current[c])}

\* C1 as stated: after a change of motor to a device with limits, a position
\* column whose current value is outside the new limits is None in the merged
\* row, and one whose current value is inside them keeps its current value.
C1_AsStated ==
    (Returned /\ MotorWithLimits) =>
        \A c \in PresentPositions :
            /\ ~InsideLimits(current[c], NewLimits) => merged[c] = PyNone
            /\ InsideLimits(current[c], NewLimits) => merged[c] = current[c]

\* C1, amended: after a change of motor to a device with limits, a position
\* column whose current value is outside the new limits is None in the merged
\* row; one whose current value is inside them (bounds included) has the
\* requested value if the update carries that column, and its current value
\* otherwise.
C1_ResetOutsideKeepInside ==
    (Returned /\ MotorWithLimits) =>
        \A c \in PresentPositions :
            /\ ~InsideLimits(current[c], NewLimits) => merged[c] = PyNone
            /\ InsideLimits(current[c], NewLimits) =>
                  merged[c] = IF c \in DOMAIN requested THEN requested[c]
                              ELSE current[c]

\* the example of the specification, scaled to the limits (1, 2): start inside
\* is kept, stop outside is reset
C1_Witness ==
    /\ Returned
    /\ "motor" \in DOMAIN requested /\ requested["motor"] = Device(1)
    /\ "start" \in DOMAIN current /\ current["start"] = PyInt(2)
    /\ "stop" \in DOMAIN current /\ current["stop"] = PyInt(3)
    /\ merged["start"] = PyInt(2)
    /\ merged["stop"] = PyNone

\* C2: for row 0 the merged row's snake column is None, whatever snake value
\* was requested or was current.
C2_SnakeUnsetInRowZero ==
    (Returned /\ row = 0) =>
        /\ "snake" \in DOMAIN merged => merged["snake"] = PyNone
        /\ "snake" \in (DOMAIN requested) \cup (DOMAIN current)
              => "snake" \in DOMAIN merged

\* a truthy snake is requested for row 0
C2_Witness ==
    /\ Returned /\ row = 0
    /\ "snake" \in DOMAIN requested /\ requested["snake"] = PyTrue
    /\ merged["snake"] = PyNone

\* C3: for a row other than row 0, a falsy requested snake (None, 0, '', False)
\* is exactly False in the merged row, and a truthy one is kept.
C3_SnakeCoercedInOtherRows ==
    (Returned /\ row > 0 /\ "snake" \in DOMAIN requested) =>
        /\ "snake" \in DOMAIN merged
        /\ ~Truthy(requested["snake"]) => merged["snake"] = PyFalse
        /\ Truthy(requested["snake"]) => merged["snake"] = requested["snake"]

\* the number 0 is requested as snake for a later row
C3_Witness ==
    /\ Returned /\ row > 0
    /\ "snake" \in DOMAIN requested /\ requested["snake"] = PyInt(0)
    /\ merged["snake"] = PyFalse

\* C7: a call leaves both argument dicts as they were, returns a dict object
\* that is neither of them, and a second call with the same arguments has the
\* same outcome as the first.
C7_PureFunction ==
    ret # "NotCalled" =>
        /\ heap["requested"] = argsBefore.requested
        /\ heap["current"] = argsBefore.current
        /\ ret \notin {"requested", "current"}
        /\ previous # <<>> => previous[1] = Outcome(heap, ret)

\* a second call after a first one that reset a column and coerced snake
C7_Witness ==
    /\ Returned
    /\ previous # <<>>
    /\ merged # MergeDicts(current, requested)
    /\ "stop" \in DOMAIN merged /\ merged["stop"] = PyNone

(***************************************************************************)
(* Motor changes on one row of a scan table                                *)
(***************************************************************************)
\* a row of a scan table with a motor and numbers for start and stop
ScanRows ==
    {[motor |-> Device(2), start |-> a, stop |-> b] :
        a \in Positions, b \in Positions}

\* the update an edit of the motor cell requests
MotorChanges == {[motor |-> Device(d)] : d \in 1..4}

MotorChangesStart ==
    /\ \E cur \in ScanRows : heap = ("current" :> cur)
    /\ row = 0
    /\ ret = "NotCalled"
    /\ argsBefore = [requested |-> EmptyDict, current |-> EmptyDict]
    /\ previous = <<>>

\* The table takes the merged row the rule returned as the row's new values
StoreMerged ==
    /\ Returned
    /\ heap' = ("current" :> heap[ret])
    /\ ret' = "NotCalled"
    /\ argsBefore' = [requested |-> EmptyDict, current |-> EmptyDict]
    /\ previous' = <<>>
    /\ UNCHANGED row

\* the position columns of the current row that were unset when the rule was
\* called
UnsetPositions ==
    {c \in {"start", "stop", "value"} :
        c \in DOMAIN current /\ current[c] = PyNone}

\* C12 as stated: a call whose current row has an unset (None) position
\* column raises no error and the column stays None in the merged row, also
\* when the column was reset by an earlier motor change on the same row.
C12_AsStated ==
    (ret # "NotCalled" /\ UnsetPositions # {}) =>
        /\ ret # "TypeError"
        /\ \A c \in UnsetPositions :
              c \notin DOMAIN requested => merged[c] = PyNone

\* C14 as stated: after a change of motor to a device with limits, whatever
\* else the update carries, every position column of the merged row is None
\* or a number inside the new limits.
C14_AsStated ==
    (Returned /\ MotorWithLimits) =>
        \A c \in {"start", "stop", "value"} \cap DOMAIN merged :
            \/ merged[c] = PyNone
            \/ IsNumber(merged[c]) /\ InsideLimits(merged[c], NewLimits)

(***************************************************************************)
(* UniqueValidator and table_unique_mtext_factory                          *)
(***************************************************************************)
\* the strings a cell displays; string 0 is the empty string
Strings == 0..2

\* the strings a user may type: those, and one that no cell displays
InputStrings == 0..3

Columns == 1..2

MaxTableRows == 3

\* any table of displayed strings: nothing in the factory or in the tables
\* that use it keeps two rows from displaying the same string
TableModels ==
    UNION {[1..n -> [Columns -> Strings]] : n \in 1..MaxTableRows}

\* a slip: the row being edited is not left out
InvalidListEveryRow(model, cur_row, column) ==
    [i \in 1..Len(model) |-> model[i][column]]

\* [model.item(row, column).data(Qt.DisplayRole)
\*  for row in range(model.rowCount()) if row != cur_row]
InvalidList(model, cur_row, column) ==
    [i \in 1..(Len(model) - 1) |->
        model[IF i < cur_row THEN i ELSE i + 1][column]]

\* UniqueValidator.validate
validate(invalid, s) ==
    IF \E i \in DOMAIN invalid : invalid[i] = s
    THEN "Invalid"
    ELSE "Acceptable"

UniqueStart ==
    /\ tableModel \in TableModels
    /\ selection = <<>>
    /\ invalid_list = <<>>
    /\ inputStr = 0
    /\ verdict = "none"

UniqueIdle ==
    /\ tableModel = <<>>
    /\ selection = <<>>
    /\ invalid_list = <<>>
    /\ inputStr = 0
    /\ verdict = "none"

\* The table opens the editor of the selected cell
table_unique_mtext_factory(cur_row, column) ==
    /\ selection' = <<cur_row, column>>
    /\ invalid_list' = InvalidList(tableModel, cur_row, column)
    /\ verdict' = "none"
    /\ UNCHANGED <<tableModel, inputStr>>

\* The editor's validator is asked about a typed string
ValidateInput(s) ==
    /\ selection # <<>>
    /\ verdict' = validate(invalid_list, s)
    /\ inputStr' = s
    /\ UNCHANGED <<tableModel, selection, invalid_list>>

(***************************************************************************)
(* table_mcombobox_factory                                                 *)
(***************************************************************************)
\* Python's ==: numbers compare by value (0 == False), other values by identity
PyEq(a, b) == IF IsNumber(a) /\ IsNumber(b) THEN a[2] = b[2] ELSE a = b

\* getattr(item, 'name', str(item)): distinct items of the model have
\* distinct names
NameOf(item) == <<"name", item[1], item[2]>>

\* a slip: nothing is left out of the drop-down list
SelectedItemsNone(table_rows) == {}

\* [item.get(key) for item in table.get_parameters()[table._name]
\*  if item.get(key)]
SelectedItems(table_rows) ==
    {table_rows[i] : i \in {j \in DOMAIN table_rows : Truthy(table_rows[j])}}

\* {getattr(item, 'name', str(item)): item for item in option_list
\*  if item not in selected_items}: a later option replaces an earlier one of
\* the same name
ComboItems(options, table_rows) ==
    LET selected_items == SelectedItems(table_rows)
        kept == {i \in DOMAIN options :
                    ~\E sel \in selected_items : PyEq(options[i], sel)}
    IN  [n \in {NameOf(options[i]) : i \in kept} |->
            options[CHOOSE i \in kept :
                       /\ NameOf(options[i]) = n
                       /\ \A k \in kept : NameOf(options[k]) = n => k <= i]]

NoItems == [n \in {} |-> PyNone]

Offered == {items[n] : n \in DOMAIN items}

MaxComboRows == 3

MaxEdits == 3

\* an option list of any items, among them a falsy one
AnyOptions == <<PyInt(0), PyInt(1), Device(1), Device(2)>>

\* self.motors of BsScanTableEditor: devices
Motors == <<Device(1), Device(2), Device(3), Device(4)>>

Range(f) == {f[i] : i \in DOMAIN f}

KeyColumns(options) ==
    UNION {[1..n -> {PyNone} \cup Range(options)] : n \in 1..MaxComboRows}

\* a table of any rows, with the option list of any items
ComboStart ==
    /\ option_list = AnyOptions
    /\ rows \in KeyColumns(AnyOptions)
    /\ editorRow = 0
    /\ items = NoItems
    /\ edits = 0

\* a scan table: the rows that have a motor have pairwise distinct motors
MotorTableStart ==
    /\ option_list = Motors
    /\ rows \in {t \in KeyColumns(Motors) :
                    \A i, j \in DOMAIN t :
                        (i # j /\ t[i] = t[j]) => t[i] = PyNone}
    /\ editorRow = 0
    /\ items = NoItems
    /\ edits = 0

ComboIdle ==
    /\ option_list = <<>>
    /\ rows = <<>>
    /\ editorRow = 0
    /\ items = NoItems
    /\ edits = 0

\* The table opens the combo editor of a cell of row r
table_mcombobox_factory(r) ==
    /\ editorRow' = r
    /\ items' = ComboItems(option_list, rows)
    /\ UNCHANGED <<option_list, rows, edits>>

\* The user picks one of the offered items and the cell takes it
CommitItem(item) ==
    /\ editorRow # 0
    /\ edits < MaxEdits
    /\ item \in Offered
    /\ edits' = edits + 1
    /\ rows' = [rows EXCEPT ![editorRow] = item]
    /\ editorRow' = 0
    /\ items' = NoItems
    /\ UNCHANGED option_list

(***************************************************************************)
(* Properties of the editor factories                                      *)
(***************************************************************************)
Validated == selection # <<>> /\ verdict # "none"

OtherRowDisplays(s) ==
    \E r \in DOMAIN tableModel :
        r # selection[1] /\ tableModel[r][selection[2]] = s

OwnValue == tableModel[selection[1]][selection[2]]

\* C4 as stated: the editor of the selected cell rejects every string that
\* another row displays in the column, and accepts the row's own value.
C4_AsStated ==
    Validated =>
        /\ OtherRowDisplays(inputStr) => verdict = "Invalid"
        /\ inputStr = OwnValue => verdict = "Acceptable"

\* C4, amended: the editor of the selected cell rejects every string that
\* another row displays in the column, and accepts every other string; so it
\* accepts the row's own value unless another row displays the same string.
C4_RejectsOtherRowsValues ==
    Validated =>
        /\ OtherRowDisplays(inputStr) => verdict = "Invalid"
        /\ ~OtherRowDisplays(inputStr) => verdict = "Acceptable"

\* the row's own value is typed again, in a table of several rows
C4_Witness ==
    /\ Validated
    /\ Len(tableModel) >= 2
    /\ inputStr = OwnValue
    /\ verdict = "Acceptable"

\* C5 as stated: the open combo editor offers only items of option_list, and
\* no item that is the value of the key column in another row.
C5_AsStated ==
    editorRow # 0 =>
        \A item \in Offered :
            /\ item \in Range(option_list)
            /\ \A r \in DOMAIN rows : r # editorRow => ~PyEq(rows[r], item)

\* C6: in a table edited only through the combo editor, from rows of pairwise
\* distinct motors, no two rows select the same device.
C6_NoTwoRowsSameDevice ==
    \A i, j \in DOMAIN rows :
        (i # j /\ rows[i] # PyNone) => ~PyEq(rows[i], rows[j])

\* cells have been given motors while every row has a motor
C6_Witness ==
    /\ Len(rows) >= 3
    /\ edits >= 2
    /\ editorRow = 0
    /\ \A i \in DOMAIN rows : rows[i] # PyNone
    /\ rows[1] = Device(4)

(***************************************************************************)
(* MoverRanger                                                             *)
(***************************************************************************)
\* the range of a spin box that has been given none, scaled to the positions
\* of the model
DefaultRange == <<0, 4>>

\* the values a user may try to enter, some of them outside every range
UserValues == -1..5

Movers == {Device(d) : d \in 1..4}

Clamp(v, lo, hi) == IF v < lo THEN lo ELSE IF v > hi THEN hi ELSE v

\* QSpinBox.setValue: the value is brought into the range
setValue(spin, v) == [spin EXCEPT !.value = Clamp(v, spin.minimum, spin.maximum)]

\* a slip: the range is taken without bringing the value into it
setRangeNoClamp(spin, lo, hi) ==
    [minimum |-> lo, maximum |-> IF hi < lo THEN lo ELSE hi, value |-> spin.value]

\* QSpinBox.setRange: a maximum below the minimum becomes the minimum, and the
\* value is brought into the new range
setRange(spin, lo, hi) ==
    LET top == IF hi < lo THEN lo ELSE hi
    IN  [minimum |-> lo, maximum |-> top, value |-> Clamp(spin.value, lo, top)]

\* QSpinBox.setMinimum
setMinimum(spin, lo) ==
    setRange(spin, lo, IF spin.maximum < lo THEN lo ELSE spin.maximum)

NewSpin == [minimum |-> DefaultRange[1], maximum |-> DefaultRange[2],
            value |-> DefaultRange[1]]

\* stps = MISpin(steps_name); stps.setValue(steps); stps.setMinimum(1)
StepsSpin(n) == setMinimum(setValue(NewSpin, n), 1)

\* MoverRanger(name, steps=n), with no mover
RangerStart ==
    /\ mover = PyNone
    /\ lower = NewSpin
    /\ upper = NewSpin
    /\ \E n \in {0, 3} : steps = StepsSpin(n)
    /\ lastSet = PyNone

RangerIdle ==
    /\ mover = PyNone
    /\ lower = NewSpin
    /\ upper = NewSpin
    /\ steps = NewSpin
    /\ lastSet = PyNone

\* MoverRanger.set_mover
set_mover(m) ==
    LET limits == GetLimits(m)
    IN  /\ mover' = m
        /\ IF limits # NoLimits
           THEN /\ lower' = setRange(lower, limits[1], limits[2])
                /\ upper' = setRange(upper, limits[1], limits[2])
           ELSE UNCHANGED <<lower, upper>>
        /\ lastSet' = m
        /\ UNCHANGED steps

\* The user edits one of the three inputs
EditStart(v) ==
    /\ lower' = setValue(lower, v)
    /\ UNCHANGED <<mover, upper, steps, lastSet>>

EditStop(v) ==
    /\ upper' = setValue(upper, v)
    /\ UNCHANGED <<mover, lower, steps, lastSet>>

EditSteps(v) ==
    /\ steps' = setValue(steps, v)
    /\ UNCHANGED <<mover, lower, upper, lastSet>>

\* MoverRanger.get_args
get_args == <<mover, lower.value, upper.value, steps.value>>

(***************************************************************************)
(* ControlGui: the go button and the delivery of documents                 *)
(***************************************************************************)
NumTabs == 2

MaxSetting == 2

MaxClicks == 3

MaxDocs == 3

MaxUid == 2

ScanWidgets == 1..NumTabs

\* Scan1D.get_plan, Count.get_plan: the plan function of the widget applied
\* to what its input widgets hold
get_plan(w) == [plan_function |-> w, args |-> scanState[w]]

\* a slip: the plan of the first tab, whichever tab is active
TabScanSelector_get_plan_first == get_plan(1)

\* TabScanSelector.get_plan: self.tab_widget.currentWidget().get_plan()
TabScanSelector_get_plan == get_plan(currentIndex)

\* event_model.DocumentNames, by value
DocumentNames ==
    ("stop" :> 1) @@ ("start" :> 2) @@ ("descriptor" :> 3) @@ ("event" :> 4)

\* the name of a member of DocumentNames
MemberName(n) == CHOOSE name \in DOMAIN DocumentNames : DocumentNames[name] = n

Documents == [uid : 1..MaxUid]

\* a slip: the label follows every document
StartLabel_doc_consumer_any(text, name, doc) == <<"last scan: ", doc.uid>>

\* StartLabel.doc_consumer: the label's text after the call
StartLabel_doc_consumer(text, name, doc) ==
    IF name = "start" THEN <<"last scan: ", doc.uid>> ELSE text

GuiStart ==
    /\ currentIndex = 1
    /\ scanState = [w \in ScanWidgets |-> 1]
    /\ queue = <<>>
    /\ clicked = <<>>
    /\ emitted = <<>>
    /\ labelText = <<>>
    /\ labelDocs = <<>>
    /\ becDocs = <<>>
    /\ liveDocs = <<>>

GuiIdle == GuiStart

docVars == <<emitted, labelText, labelDocs, becDocs, liveDocs>>

goVars == <<currentIndex, scanState, queue, clicked>>

\* The user selects a tab
SelectTab(t) ==
    /\ currentIndex' = t
    /\ UNCHANGED <<scanState, queue, clicked, docVars>>

\* The user changes an input of the scan widget of the active tab
EditScan(v) ==
    /\ scanState' = [scanState EXCEPT ![currentIndex] = v]
    /\ UNCHANGED <<currentIndex, queue, clicked, docVars>>

\* go_button.clicked: runner()
runner ==
    /\ Len(queue) < MaxClicks
    /\ queue' = Append(queue, TabScanSelector_get_plan)
    /\ clicked' = Append(clicked, <<currentIndex, scanState[currentIndex]>>)
    /\ UNCHANGED <<currentIndex, scanState, docVars>>

\* teleport.name_doc emits (name, doc): the three connected slots run in the
\* order of their connection
name_doc(name, doc) ==
    /\ Len(emitted) < MaxDocs
    /\ emitted' = Append(emitted, <<name, doc>>)
    /\ labelDocs' = Append(labelDocs, <<name, doc>>)
    /\ labelText' = StartLabel_doc_consumer(labelText, name, doc)
    /\ becDocs' = Append(becDocs, <<MemberName(DocumentNames[name]), doc>>)
    /\ liveDocs' = Append(liveDocs, <<name, doc>>)
    /\ UNCHANGED goVars

(***************************************************************************)
(* Properties of the control panel                                         *)
(***************************************************************************)
\* the plan a click is to enqueue: that of the tab active at the click, built
\* from what that tab's inputs held at the click
PlanOfClick(c) == [plan_function |-> c[1], args |-> c[2]]

\* C8: the queue has received exactly one plan per click of the go button, in
\* click order, each the plan of the tab that was active at its click.
C8_OnePlanPerClick ==
    /\ Len(queue) = Len(clicked)
    /\ \A i \in DOMAIN clicked : queue[i] = PlanOfClick(clicked[i])

\* two clicks on different tabs, the second tab with a changed input
C8_Witness ==
    /\ Len(queue) >= 2
    /\ queue[1].plan_function = 1
    /\ queue[2].plan_function = 2
    /\ queue[2].args = 2
    /\ currentIndex = 1

\* the uid of the most recent 'start' document among the first n emitted, 0
\* when there is none
RECURSIVE LastStartUid(_)
LastStartUid(n) ==
    IF n = 0 THEN 0
    ELSE IF emitted[n][1] = "start" THEN emitted[n][2].uid
    ELSE LastStartUid(n - 1)

\* C9: every emitted (name, document) pair has reached each of the three
\* subscribers, in arrival order, and the label shows the uid of the most
\* recent 'start' document (its initial text when there was none).
C9_DocumentsForwarded ==
    /\ labelDocs = emitted
    /\ becDocs = emitted
    /\ liveDocs = emitted
    /\ labelText = IF LastStartUid(Len(emitted)) = 0 THEN <<>>
                   ELSE <<"last scan: ", LastStartUid(Len(emitted))>>

\* a 'start' document followed by documents of other names and other uids
C9_Witness ==
    /\ Len(emitted) = 3
    /\ emitted[1] = <<"start", [uid |-> 1]>>
    /\ emitted[2][1] = "event" /\ emitted[2][2].uid = 2
    /\ emitted[3][1] = "stop" /\ emitted[3][2].uid = 2
    /\ labelText = <<"last scan: ", 1>>

(***************************************************************************)
(* Properties of MoverRanger                                               *)
(***************************************************************************)
\* C10: get_args returns the device of the most recent set_mover, and a step
\* count of at least 1; when that device has limits other than (0, 0), start
\* and stop are inside them; and binding a device with limits (0, 0), or with
\* none, leaves the ranges of both inputs as they were.
C10_ArgsInsideLimits ==
    /\ [](/\ get_args[1] = lastSet
          /\ get_args[4] >= 1
          /\ GetLimits(get_args[1]) # NoLimits =>
                /\ InsideLimits(PyInt(get_args[2]), GetLimits(get_args[1]))
                /\ InsideLimits(PyInt(get_args[3]), GetLimits(get_args[1])))
    /\ [][GetLimits(mover') = NoLimits =>
             /\ lower'.minimum = lower.minimum /\ lower'.maximum = lower.maximum
             /\ upper'.minimum = upper.minimum /\ upper'.maximum = upper.maximum
         ]_vars

\* a device with limits is bound after values outside them were entered
C10_Witness ==
    /\ mover = Device(4)
    /\ lower.value = 2
    /\ upper.value = 3
    /\ steps.value = 1

(***************************************************************************)
(* MotorSelector                                                           *)
(***************************************************************************)
MaxMotors == 3

MaxCalls == 3

\* the indices a caller may pass, among them the -1 with which a combo box
\* signals that it has no current item
Indices == (0 - MaxMotors - 1)..(MaxMotors + 1)

\* self.motors[n]: the widget (numbered from 1) a Python index selects in a
\* list of len items, a negative index counting from the end; 0 for IndexError
ListIndex(len, n) ==
    IF 0 <= n /\ n < len THEN n + 1
    ELSE IF 0 - len <= n /\ n < 0 THEN len + n + 1
    ELSE 0

\* the state after MotorSelector.set_active_motor(n)
ActiveAfter(len, active, vis, n) ==
    LET m == ListIndex(len, n)
    IN  IF m = 0 THEN [active |-> active, visible |-> vis]
        ELSE [active |-> m, visible |-> [w \in 1..len |-> w = m]]

\* MotorSelector.__init__(motors): every widget hidden, then
\* self.set_active_motor(0)
SelectorStart ==
    /\ motors \in 0..MaxMotors
    /\ LET hidden == [w \in 1..motors |-> FALSE]
           made == ActiveAfter(motors, 0, hidden, 0)
       IN  /\ active_motor = made.active
           /\ visible = made.visible
           /\ selBefore = [active |-> 0, visible |-> hidden]
    /\ lastN = 0
    /\ selCalls = 0

SelectorIdle ==
    /\ motors = 0
    /\ active_motor = 0
    /\ visible = <<>>
    /\ lastN = 0
    /\ selBefore = [active |-> 0, visible |-> <<>>]
    /\ selCalls = 0

\* MotorSelector.set_active_motor
set_active_motor(n) ==
    /\ selCalls < MaxCalls
    /\ LET after == ActiveAfter(motors, active_motor, visible, n)
       IN  /\ active_motor' = after.active
           /\ visible' = after.visible
    /\ selBefore' = [active |-> active_motor, visible |-> visible]
    /\ lastN' = n
    /\ selCalls' = selCalls + 1
    /\ UNCHANGED motors

\* C11 as stated: a call of set_active_motor with an index outside
\* 0..len(motors)-1 leaves the active motor and the visibility of every
\* MoverRanger as they were before the call.
C11_AsStated ==
    lastN \notin 0..(motors - 1) =>
        /\ active_motor = selBefore.active
        /\ visible = selBefore.visible

(***************************************************************************)
(* bs_motor_position_mfspin_factory                                        *)
(***************************************************************************)
MaxPosRows == 3

\* the rows of a table: with no 'motor' key, with no motor chosen, or with one
\* of the four devices
PositionTables ==
    UNION {[1..n -> {Dict(m) : m \in [motor : {Absent, PyNone} \cup Movers]}]
              : n \in 1..MaxPosRows}

\* a slip: the motor of the first row, whichever row is selected
FirstRowMotor(table, r) ==
    IF "motor" \in DOMAIN table[1] THEN table[1]["motor"] ELSE PyNone

\* table.get_row_parameters(index.row())[table._name].get('motor', None)
SelectedRowMotor(table, r) ==
    IF "motor" \in DOMAIN table[r] THEN table[r]["motor"] ELSE PyNone

\* the minimum and maximum the factory passes to MFSpin, Absent when it
\* passes none
PositionEditor(table, r) ==
    LET motor == SelectedRowMotor(table, r)
        limits == GetLimits(motor)
    IN  IF limits # NoLimits
        THEN [minimum |-> PyInt(limits[1]), maximum |-> PyInt(limits[2])]
        ELSE [minimum |-> Absent, maximum |-> Absent]

NoEditor == [minimum |-> Absent, maximum |-> Absent]

PositionStart ==
    /\ posRows \in PositionTables
    /\ posSelected = 0
    /\ posEditor = NoEditor

PositionIdle ==
    /\ posRows = <<>>
    /\ posSelected = 0
    /\ posEditor = NoEditor

\* The table opens the position editor of a cell of row r
bs_motor_position_mfspin_factory(r) ==
    /\ posSelected' = r
    /\ posEditor' = PositionEditor(posRows, r)
    /\ UNCHANGED posRows

\* The editor is closed
ClosePositionEditor ==
    /\ posSelected # 0
    /\ posSelected' = 0
    /\ posEditor' = NoEditor
    /\ UNCHANGED posRows

\* the selected row's motor is a device with a limits attribute other than
\* (0, 0)
SelectedMotorHasLimits ==
    /\ "motor" \in DOMAIN posRows[posSelected]
    /\ posRows[posSelected]["motor"][1] = "device"
    /\ posRows[posSelected]["motor"][2] \in DOMAIN DeviceLimits
    /\ DeviceLimits[posRows[posSelected]["motor"][2]] # <<0, 0>>

\* C13: the position editor opened for a cell of the selected row has the
\* limits of that row's motor as minimum and maximum when they are not (0, 0);
\* with no motor, a motor without limits or limits (0, 0) it is given no
\* bounds.
C13_EditorBoundsFromMotor ==
    posSelected # 0 =>
        IF SelectedMotorHasLimits
        THEN LET limits == DeviceLimits[posRows[posSelected]["motor"][2]]
             IN  /\ posEditor.minimum = PyInt(limits[1])
                 /\ posEditor.maximum = PyInt(limits[2])
        ELSE posEditor.minimum = Absent /\ posEditor.maximum = Absent

\* the editor of the second row, whose motor has other limits than the first
\* row's
C13_Witness ==
    /\ posSelected = 2
    /\ posRows[1] = [motor |-> Device(1)]
    /\ posRows[2] = [motor |-> Device(4)]
    /\ posEditor = [minimum |-> PyInt(2), maximum |-> PyInt(3)]

(***************************************************************************)
(* Specifications: one per component, the other components at rest         *)
(***************************************************************************)
CoupledFrame == UNCHANGED <<uniqueVars, comboVars, rangerVars, guiVars,
                 selectorVars, positionVars>>

UniqueFrame == UNCHANGED <<coupledVars, comboVars, rangerVars, guiVars,
                 selectorVars, positionVars>>

ComboFrame == UNCHANGED <<coupledVars, uniqueVars, rangerVars, guiVars,
                 selectorVars, positionVars>>

RangerFrame == UNCHANGED <<coupledVars, uniqueVars, comboVars, guiVars,
                 selectorVars, positionVars>>

GuiFrame == UNCHANGED <<coupledVars, uniqueVars, comboVars, rangerVars,
                 selectorVars, positionVars>>

InitCoupled ==
    /\ CoupledStart
    /\ UniqueIdle
    /\ ComboIdle
    /\ RangerIdle
    /\ GuiIdle
    /\ SelectorIdle
    /\ PositionIdle

NextCoupled ==
    \/ \E req \in RequestedUpdates, r \in 0..MaxRow :
          ret = "NotCalled" /\ UpdateCoupled(req, r) /\ CoupledFrame
    \/ CallAgain /\ CoupledFrame

SpecCoupled == InitCoupled /\ [][NextCoupled]_vars

InitUnique ==
    /\ CoupledIdle
    /\ UniqueStart
    /\ ComboIdle
    /\ RangerIdle
    /\ GuiIdle
    /\ SelectorIdle
    /\ PositionIdle

NextUnique ==
    \/ \E r \in DOMAIN tableModel, c \in Columns :
          table_unique_mtext_factory(r, c) /\ UniqueFrame
    \/ \E s \in InputStrings : ValidateInput(s) /\ UniqueFrame

SpecUnique == InitUnique /\ [][NextUnique]_vars

InitCombo ==
    /\ CoupledIdle
    /\ UniqueIdle
    /\ ComboStart
    /\ RangerIdle
    /\ GuiIdle
    /\ SelectorIdle
    /\ PositionIdle

NextCombo ==
    \/ \E r \in DOMAIN rows : table_mcombobox_factory(r) /\ ComboFrame
    \/ \E item \in Range(option_list) : CommitItem(item) /\ ComboFrame

SpecCombo == InitCombo /\ [][NextCombo]_vars

InitMotorTable ==
    /\ CoupledIdle
    /\ UniqueIdle
    /\ MotorTableStart
    /\ RangerIdle
    /\ GuiIdle
    /\ SelectorIdle
    /\ PositionIdle

NextMotorTable ==
    \/ \E r \in DOMAIN rows : table_mcombobox_factory(r) /\ ComboFrame
    \/ \E item \in Range(option_list) : CommitItem(item) /\ ComboFrame

SpecMotorTable == InitMotorTable /\ [][NextMotorTable]_vars

InitRanger ==
    /\ CoupledIdle
    /\ UniqueIdle
    /\ ComboIdle
    /\ RangerStart
    /\ GuiIdle
    /\ SelectorIdle
    /\ PositionIdle

NextRanger ==
    \/ \E m \in Movers : set_mover(m) /\ RangerFrame
    \/ \E v \in UserValues : EditStart(v) /\ RangerFrame
    \/ \E v \in UserValues : EditStop(v) /\ RangerFrame
    \/ \E v \in UserValues : EditSteps(v) /\ RangerFrame

SpecRanger == InitRanger /\ [][NextRanger]_vars

InitGo ==
    /\ CoupledIdle
    /\ UniqueIdle
    /\ ComboIdle
    /\ RangerIdle
    /\ GuiStart
    /\ SelectorIdle
    /\ PositionIdle

NextGo ==
    \/ \E t \in ScanWidgets : SelectTab(t) /\ GuiFrame
    \/ \E v \in 1..MaxSetting : EditScan(v) /\ GuiFrame
    \/ runner /\ GuiFrame

SpecGo == InitGo /\ [][NextGo]_vars

InitDocs ==
    /\ CoupledIdle
    /\ UniqueIdle
    /\ ComboIdle
    /\ RangerIdle
    /\ GuiStart
    /\ SelectorIdle
    /\ PositionIdle

NextDocs ==
    \/ \E name \in DOMAIN DocumentNames, doc \in Documents :
          name_doc(name, doc) /\ GuiFrame

SpecDocs == InitDocs /\ [][NextDocs]_vars

SelectorFrame == UNCHANGED <<coupledVars, uniqueVars, comboVars, rangerVars,
                             guiVars, positionVars>>

InitSelector ==
    /\ CoupledIdle
    /\ UniqueIdle
    /\ ComboIdle
    /\ RangerIdle
    /\ GuiIdle
    /\ SelectorStart
    /\ PositionIdle

NextSelector ==
    \/ \E n \in Indices : set_active_motor(n) /\ SelectorFrame

SpecSelector == InitSelector /\ [][NextSelector]_vars

PositionFrame == UNCHANGED <<coupledVars, uniqueVars, comboVars, rangerVars,
                             guiVars, selectorVars>>

InitPosition ==
    /\ CoupledIdle
    /\ UniqueIdle
    /\ ComboIdle
    /\ RangerIdle
    /\ GuiIdle
    /\ SelectorIdle
    /\ PositionStart

NextPosition ==
    \/ \E r \in DOMAIN posRows :
          bs_motor_position_mfspin_factory(r) /\ PositionFrame
    \/ ClosePositionEditor /\ PositionFrame

SpecPosition == InitPosition /\ [][NextPosition]_vars

InitMotorChanges ==
    /\ MotorChangesStart
    /\ UniqueIdle
    /\ ComboIdle
    /\ RangerIdle
    /\ GuiIdle
    /\ SelectorIdle
    /\ PositionIdle

NextMotorChanges ==
    \/ \E req \in MotorChanges, r \in 0..MaxRow :
          ret = "NotCalled" /\ UpdateCoupled(req, r) /\ CoupledFrame
    \/ StoreMerged /\ CoupledFrame

SpecMotorChanges == InitMotorChanges /\ [][NextMotorChanges]_vars

====
